---- MODULE Spec2Model ----
(***************************************************************************)
(* Model of arxiv_server.py: five MCP tools that query the arXiv API and   *)
(* render the parsed Atom feed as text.                                    *)
(*                                                                         *)
(* A text is a sequence of atoms (TLA+ strings).  Fixed pieces of the      *)
(* program's f-strings are one atom each; data coming from the feed is     *)
(* spelled one character per atom, so slicing ([:250]), replace('\n',' ')  *)
(* and find() act on it as they do on Python strings.                      *)
(***************************************************************************)
EXTENDS Integers, Sequences, FiniteSets, TLC

\* ---------------------------------------------------------------- bounds
NumCalls == 2
MaxEntries == 2
MaxIds == 2

\* ------------------------------------------------------ program constants
TruncLen == 250
HTTP_OK == 200
DefaultMaxResults == 5

\* ------------------------------------------------------------ text tools
NA == <<"N", "/", "A">>

DigitAtom(d) == <<"0", "1", "2", "3", "4", "5", "6", "7", "8", "9">>[d + 1]

RECURSIVE Digits(_)
Digits(n) == IF n < 10 THEN <<DigitAtom(n)>>
             ELSE Digits(n \div 10) \o <<DigitAtom(n % 10)>>

Pad2(n) == IF n < 10 THEN <<"0">> \o Digits(n) ELSE Digits(n)

Take(t, n) == SubSeq(t, 1, IF Len(t) < n THEN Len(t) ELSE n)

ReplaceNewline(t) == [i \in 1..Len(t) |-> IF t[i] = "\n" THEN " " ELSE t[i]]

RECURSIVE Join(_, _)
Join(texts, sep) ==
    IF Len(texts) = 0 THEN <<>>
    ELSE IF Len(texts) = 1 THEN texts[1]
    ELSE texts[1] \o sep \o Join(Tail(texts), sep)

Find(t, atom) ==
    LET at == {i \in 1..Len(t) : t[i] = atom}
    IN  IF at = {} THEN 0 ELSE CHOOSE i \in at : \A j \in at : i <= j

Last(s) == s[Len(s)]

\* --------------------------------------------------- outcome of a callable
Return(t) == [kind |-> "return", text |-> t]
Raise(e) == [kind |-> "raise", text |-> <<e>>]
NoOutcome == [kind |-> "none", text |-> <<>>]
Returned(o) == o.kind = "return"

\* ------------------------------------------------------------ feed entries
\* A feedparser entry: has is the set of attributes hasattr() finds; the
\* value of an attribute outside has is never read.
\*   id       the identifier URL, given as its pieces between "/" characters
\*   authors  sequence of author dicts, each with or without a name
\*   links    sequence of link dicts, each with a subset of rel/type/href
\*   *_parsed <<year, month, day>>, or <<>> for None
Has(e, f) == f \in e.has

title(e) == IF Has(e, "title") THEN ReplaceNewline(e.title) ELSE NA

authors(e) ==
    IF ~Has(e, "authors") THEN Return(NA)
    ELSE IF \E i \in 1..Len(e.authors) : ~e.authors[i].has_name
         THEN Raise("AttributeError")
         ELSE Return(Join([i \in 1..Len(e.authors) |-> e.authors[i].name], <<", ">>))

arxiv_id_match(e) == IF Has(e, "id") THEN <<Last(e.id)>> ELSE NA

abstract_link(e) ==
    IF Has(e, "id") THEN Join([i \in 1..Len(e.id) |-> <<e.id[i]>>], <<"/">>) ELSE NA

RECURSIVE PdfScan(_, _)
PdfScan(links, i) ==
    IF i > Len(links) THEN Return(NA)
    ELSE LET l == links[i] IN
         IF "rel" \notin l.has THEN Raise("AttributeError")
         ELSE IF l.rel # "related" THEN PdfScan(links, i + 1)
         ELSE IF "type" \notin l.has THEN Raise("AttributeError")
         ELSE IF l.type # "application/pdf" THEN PdfScan(links, i + 1)
         ELSE IF "href" \notin l.has THEN Raise("AttributeError")
         ELSE Return(l.href)

\* pdf_link reading entry.links without the hasattr guard.
pdf_link_unguarded(e) ==
    IF Has(e, "links") THEN PdfScan(e.links, 1) ELSE Raise("AttributeError")

pdf_link(e) == IF Has(e, "links") THEN PdfScan(e.links, 1) ELSE Return(NA)

summary(e) == IF Has(e, "summary") THEN ReplaceNewline(e.summary) ELSE NA

published_date(e) ==
    LET published_parsed == IF Has(e, "published_parsed") THEN e.published_parsed ELSE <<>>
        updated_parsed == IF Has(e, "updated_parsed") THEN e.updated_parsed ELSE <<>>
    IN  IF published_parsed # <<>> THEN published_parsed ELSE updated_parsed

date_str(e) ==
    LET d == published_date(e)
    IN  IF d # <<>> THEN Digits(d[1]) \o <<"-">> \o Pad2(d[2]) \o <<"-">> \o Pad2(d[3])
        ELSE NA

primary_category(e) ==
    IF Has(e, "arxiv_primary_category") /\ e.arxiv_primary_category.has_term
    THEN e.arxiv_primary_category.term ELSE NA

comment(e) == IF Has(e, "arxiv_comment") THEN ReplaceNewline(e.arxiv_comment) ELSE NA
journal_ref(e) == IF Has(e, "arxiv_journal_ref") THEN ReplaceNewline(e.arxiv_journal_ref) ELSE NA
doi(e) == IF Has(e, "arxiv_doi") THEN e.arxiv_doi ELSE NA

details_lines(e) ==
    << <<"Title: ">> \o title(e),
       <<"Authors: ">> \o authors(e).text,
       <<"arXiv ID: ">> \o arxiv_id_match(e),
       <<"Published Date: ">> \o date_str(e),
       <<"Primary Category: ">> \o primary_category(e),
       <<"Abstract Link: ">> \o abstract_link(e),
       <<"PDF Link: ">> \o pdf_link(e).text >>
    \o (IF comment(e) # NA THEN << <<"Comment: ">> \o comment(e) >> ELSE <<>>)
    \o (IF journal_ref(e) # NA THEN << <<"Journal Reference: ">> \o journal_ref(e) >> ELSE <<>>)
    \o (IF doi(e) # NA THEN << <<"DOI: ">> \o doi(e) >> ELSE <<>>)
    \o << <<"\nAbstract:">>, summary(e) >>

_format_single_paper_details(e) ==
    IF ~Returned(authors(e)) THEN authors(e)
    ELSE IF ~Returned(pdf_link(e)) THEN pdf_link(e)
    ELSE Return(Join(details_lines(e), <<"\n">>))

\* ------------------------------------------------------------------ tools
SEP == <<"\n\n---\n\n">>

\* The query parameters handed to urlencode(); keys is the set of parameters
\* the dict holds, the others are unused.
search_params(query, max_results, sort_by, sort_order) ==
    [keys |-> {"search_query", "start", "max_results", "sortBy", "sortOrder"},
     search_query |-> query, id_list |-> <<>>, start |-> 0,
     max_results |-> max_results, sortBy |-> sort_by, sortOrder |-> sort_order]

ids_params(arxiv_ids) ==
    [keys |-> {"id_list", "max_results"},
     search_query |-> <<>>, id_list |-> Join([i \in 1..Len(arxiv_ids) |-> <<arxiv_ids[i]>>], <<",">>),
     start |-> 0, max_results |-> Len(arxiv_ids), sortBy |-> "", sortOrder |-> ""]

\* A response is [status, entries]: the HTTP status and feedparser's entries
\* for the body.
\* IsErrorEntry without the test on the number of entries.
IsErrorEntry_first(entries) ==
    /\ Len(entries) >= 1
    /\ Has(entries[1], "title")
    /\ entries[1].title = <<"E", "r", "r", "o", "r">>

IsErrorEntry(entries) ==
    /\ Len(entries) = 1
    /\ Has(entries[1], "title")
    /\ entries[1].title = <<"E", "r", "r", "o", "r">>

status_error(status) == Return(<<"Error: Academic paper API returned status ">> \o Digits(status))

api_error(entries) ==
    Return(<<"Academic paper API Error: ">>
           \o (IF Has(entries[1], "summary") THEN ReplaceNewline(entries[1].summary)
               ELSE <<"Unknown error">>))

\* short_paper_details with the slice left out.
short_paper_details_uncut(e, paper_details) ==
    LET abstract_start_index == Find(paper_details, "\nAbstract:")
    IN  IF abstract_start_index # 0
        THEN SubSeq(paper_details, 1, abstract_start_index - 1)
             \o <<"\nAbstract: ">>
             \o (IF Has(e, "summary") THEN ReplaceNewline(e.summary) ELSE NA)
             \o <<"...">>
        ELSE paper_details

short_paper_details(e, paper_details) ==
    LET abstract_start_index == Find(paper_details, "\nAbstract:")
    IN  IF abstract_start_index # 0
        THEN SubSeq(paper_details, 1, abstract_start_index - 1)
             \o <<"\nAbstract: ">>
             \o Take(IF Has(e, "summary") THEN ReplaceNewline(e.summary) ELSE NA, TruncLen)
             \o <<"...">>
        ELSE paper_details

formatted_paper(entries, i) ==
    Digits(i) \o <<". ">> \o short_paper_details(entries[i], _format_single_paper_details(entries[i]).text)

FirstRaise(entries) ==
    LET bad == {i \in 1..Len(entries) : ~Returned(_format_single_paper_details(entries[i]))}
    IN  IF bad = {} THEN 0 ELSE CHOOSE i \in bad : \A j \in bad : i <= j

\* search_papers with the status test made after the feed has been rendered.
search_papers_status_last(resp) ==
    IF IsErrorEntry(resp.entries) THEN api_error(resp.entries)
    ELSE IF Len(resp.entries) = 0
         THEN IF resp.status # HTTP_OK THEN status_error(resp.status)
              ELSE Return(<<"No papers found for your query.">>)
    ELSE IF FirstRaise(resp.entries) # 0
         THEN _format_single_paper_details(resp.entries[FirstRaise(resp.entries)])
    ELSE Return(<<"Found ">> \o Digits(Len(resp.entries)) \o <<" papers:\n">>
                \o Join([i \in 1..Len(resp.entries) |-> formatted_paper(resp.entries, i)], SEP))

search_papers(resp) ==
    IF resp.status # HTTP_OK THEN status_error(resp.status)
    ELSE IF IsErrorEntry(resp.entries) THEN api_error(resp.entries)
    ELSE IF Len(resp.entries) = 0 THEN Return(<<"No papers found for your query.">>)
    ELSE IF FirstRaise(resp.entries) # 0
         THEN _format_single_paper_details(resp.entries[FirstRaise(resp.entries)])
    ELSE Return(<<"Found ">> \o Digits(Len(resp.entries)) \o <<" papers:\n">>
                \o Join([i \in 1..Len(resp.entries) |-> formatted_paper(resp.entries, i)], SEP))

\* get_papers_by_ids rendering the brief list that search renders.
get_papers_by_ids_brief(resp) ==
    IF resp.status # HTTP_OK THEN status_error(resp.status)
    ELSE IF IsErrorEntry(resp.entries) THEN api_error(resp.entries)
    ELSE IF Len(resp.entries) = 0
         THEN Return(<<"Could not find any papers with the provided IDs.">>)
    ELSE IF FirstRaise(resp.entries) # 0
         THEN _format_single_paper_details(resp.entries[FirstRaise(resp.entries)])
    ELSE Return(Join([i \in 1..Len(resp.entries) |->
                        short_paper_details(resp.entries[i],
                            _format_single_paper_details(resp.entries[i]).text)], SEP))

\* get_papers_by_ids answering an empty feed with the search tools' message.
get_papers_by_ids_search_message(resp) ==
    IF resp.status # HTTP_OK THEN status_error(resp.status)
    ELSE IF IsErrorEntry(resp.entries) THEN api_error(resp.entries)
    ELSE IF Len(resp.entries) = 0 THEN Return(<<"No papers found for your query.">>)
    ELSE IF FirstRaise(resp.entries) # 0
         THEN _format_single_paper_details(resp.entries[FirstRaise(resp.entries)])
    ELSE Return(Join([i \in 1..Len(resp.entries) |->
                        _format_single_paper_details(resp.entries[i]).text], SEP))

get_papers_by_ids(resp) ==
    IF resp.status # HTTP_OK THEN status_error(resp.status)
    ELSE IF IsErrorEntry(resp.entries) THEN api_error(resp.entries)
    ELSE IF Len(resp.entries) = 0
         THEN Return(<<"Could not find any papers with the provided IDs.">>)
    ELSE IF FirstRaise(resp.entries) # 0
         THEN _format_single_paper_details(resp.entries[FirstRaise(resp.entries)])
    ELSE Return(Join([i \in 1..Len(resp.entries) |->
                        _format_single_paper_details(resp.entries[i]).text], SEP))

\* find_papers_by_author leaving the sort to relevance.
find_papers_by_author_request_relevance(author_name, max_results) ==
    search_params(<<"au:\"">> \o author_name \o <<"\"">>, max_results,
                  "relevance", "descending")

find_papers_by_author_request(author_name, max_results) ==
    search_params(<<"au:\"">> \o author_name \o <<"\"">>, max_results,
                  "submittedDate", "descending")

get_latest_from_category_request(category, max_results) ==
    search_params(<<"cat:">> \o category, max_results, "submittedDate", "descending")

get_paper_by_id_request(arxiv_id) == ids_params(<<arxiv_id>>)

find_papers_by_author(resp) == search_papers(resp)
get_latest_from_category(resp) == search_papers(resp)
get_paper_by_id(resp) == get_papers_by_ids(resp)

\* The request a tool call issues, from its arguments.
RequestOf(a) ==
    CASE a.tool = "search_papers" ->
            search_params(a.query, a.max_results, a.sort_by, a.sort_order)
      [] a.tool = "find_papers_by_author" ->
            find_papers_by_author_request(a.author_name, a.max_results)
      [] a.tool = "get_latest_from_category" ->
            get_latest_from_category_request(a.category, a.max_results)
      [] a.tool = "get_paper_by_id" -> get_paper_by_id_request(a.arxiv_id)
      [] a.tool = "get_papers_by_ids" -> ids_params(a.arxiv_ids)

\* What a tool call makes of the response to its request.
ResultOf(a, resp) ==
    CASE a.tool = "search_papers" -> search_papers(resp)
      [] a.tool = "find_papers_by_author" -> find_papers_by_author(resp)
      [] a.tool = "get_latest_from_category" -> get_latest_from_category(resp)
      [] a.tool = "get_paper_by_id" -> get_paper_by_id(resp)
      [] a.tool = "get_papers_by_ids" -> get_papers_by_ids(resp)

\* ------------------------------------------------- what upstream may serve
Fields == {"title", "authors", "id", "links", "summary", "published_parsed",
           "updated_parsed", "arxiv_primary_category", "arxiv_comment",
           "arxiv_journal_ref", "arxiv_doi"}

CoreFields == {"title", "authors", "id", "links", "summary", "published_parsed",
               "updated_parsed", "arxiv_primary_category"}

Author(n) == [has_name |-> TRUE, name |-> n]
Link(r, t, h) == [has |-> {"rel", "type", "href"}, rel |-> r, type |-> t, href |-> h]

\* A summary longer than the brief list keeps: a line break early on, and
\* distinct characters on both sides of the cut.
LongSummary ==
    [i \in 1..(TruncLen + 1) |->
        IF i = 2 THEN "\n" ELSE IF i = TruncLen THEN "y"
        ELSE IF i = TruncLen + 1 THEN "z" ELSE "a"]

FullEntry ==
    [has |-> Fields,
     title |-> <<"T", "\n", "t">>,
     authors |-> <<Author(<<"A">>), Author(<<"B">>)>>,
     id |-> <<"http:", "", "arxiv.org", "abs", "2307.09288v1">>,
     links |-> <<Link("alternate", "text/html", <<"h">>),
                 Link("related", "application/pdf", <<"p">>)>>,
     summary |-> LongSummary,
     published_parsed |-> <<2023, 7, 18>>,
     updated_parsed |-> <<2023, 11, 2>>,
     arxiv_primary_category |-> [has_term |-> TRUE, term |-> <<"cs.CL">>],
     arxiv_comment |-> <<"c", "\n", "c">>,
     arxiv_journal_ref |-> <<"j">>,
     arxiv_doi |-> <<"d">>]

\* An old-style identifier, no PDF link, an unparsable published date.
OldStyleEntry ==
    [FullEntry EXCEPT
        !.has = CoreFields,
        !.id = <<"http:", "", "arxiv.org", "abs", "hep-ex", "0307015v1">>,
        !.links = <<Link("alternate", "text/html", <<"h">>)>>,
        !.summary = [i \in 1..TruncLen |-> "b"],
        !.published_parsed = <<>>]

EmptyEntry == [FullEntry EXCEPT !.has = {}]

ErrorEntry ==
    [FullEntry EXCEPT
        !.has = {"title", "id", "summary", "updated_parsed", "links", "authors"},
        !.title = <<"E", "r", "r", "o", "r">>,
        !.summary = <<"b", "a", "d", "\n", "i", "d">>]

ErrorNoSummary == [ErrorEntry EXCEPT !.has = {"title"}]

\* feedparser keeps an author element without a name as a dict without one.
NamelessAuthorEntry ==
    [OldStyleEntry EXCEPT !.authors = <<Author(<<"A">>), [has_name |-> FALSE, name |-> <<>>]>>]

PdfNoHrefEntry ==
    [FullEntry EXCEPT
        !.links = <<[has |-> {"rel", "type"}, rel |-> "related", type |-> "application/pdf",
                     href |-> <<>>]>>]

NoTermEntry ==
    [OldStyleEntry EXCEPT
        !.has = {"title", "summary", "arxiv_primary_category", "arxiv_doi"},
        !.summary = <<"s">>,
        !.arxiv_primary_category = [has_term |-> FALSE, term |-> <<>>]]

Entries == {FullEntry, OldStyleEntry, EmptyEntry, ErrorEntry, ErrorNoSummary,
            NamelessAuthorEntry, PdfNoHrefEntry, NoTermEntry}

\* Every way of leaving core fields out of an entry.
PartialEntries ==
    {[b EXCEPT !.has = (b.has \ CoreFields) \cup S] :
        b \in {FullEntry}, S \in SUBSET CoreFields}

SeqsUpTo(S, n) == UNION {[1..k -> S] : k \in 0..n}

\* Feeds of several entries are drawn from ListEntries, one-entry feeds from
\* every entry above.
ListEntries == {FullEntry, OldStyleEntry, EmptyEntry, ErrorEntry, NamelessAuthorEntry}

Feeds ==
    SeqsUpTo(ListEntries, MaxEntries) \cup {<<e>> : e \in Entries \cup PartialEntries}

Statuses == {HTTP_OK, 404, 503}

Responses == [status : Statuses, entries : Feeds]

TransportErrors == {"TimeoutException", "ConnectError"}

\* ------------------------------------------------- what the host may call
Texts == {<<"x">>, <<"y", " ", "z">>}
ArxivIds == {"2307.09288", "hep-ex/0307015"}
NoArgs ==
    [tool |-> "", query |-> <<>>, max_results |-> 0, sort_by |-> "", sort_order |-> "",
     author_name |-> <<>>, category |-> <<>>, arxiv_id |-> "", arxiv_ids |-> <<>>]

Invocations ==
    {[NoArgs EXCEPT !.tool = "search_papers", !.query = q, !.max_results = n,
                    !.sort_by = so[1], !.sort_order = so[2]] :
        q \in Texts, n \in {1, DefaultMaxResults},
        so \in {<<"submittedDate", "descending">>, <<"relevance", "ascending">>}}
    \cup {[NoArgs EXCEPT !.tool = "find_papers_by_author", !.author_name = t, !.max_results = n] :
            t \in Texts, n \in {1, DefaultMaxResults}}
    \cup {[NoArgs EXCEPT !.tool = "get_latest_from_category", !.category = t, !.max_results = n] :
            t \in Texts, n \in {1, DefaultMaxResults}}
    \cup {[NoArgs EXCEPT !.tool = "get_paper_by_id", !.arxiv_id = i] : i \in ArxivIds}
    \cup {[NoArgs EXCEPT !.tool = "get_papers_by_ids", !.arxiv_ids = l] :
            l \in SeqsUpTo(ArxivIds, MaxIds)}

\* ------------------------------------------------------------------ state
Calls == 1..NumCalls

VARIABLES
    pc,        \* per call: "idle", "called", "slept", "inflight", "done"
    args,      \* per call: the tool and its arguments
    delayed,   \* per call: asyncio.sleep(3.1) has completed
    sent,      \* per call: the requests issued so far, in order
    response,  \* per call: <<>> or <<the response received>>
    outcome    \* per call: what the call handed to its caller

vars == <<pc, args, delayed, sent, response, outcome>>

Init ==
    /\ pc = [c \in Calls |-> "idle"]
    /\ args = [c \in Calls |-> NoArgs]
    /\ delayed = [c \in Calls |-> FALSE]
    /\ sent = [c \in Calls |-> <<>>]
    /\ response = [c \in Calls |-> <<>>]
    /\ outcome = [c \in Calls |-> NoOutcome]

\* The host calls a tool.
Invoke(c, a) ==
    /\ pc[c] = "idle"
    /\ pc' = [pc EXCEPT ![c] = "called"]
    /\ args' = [args EXCEPT ![c] = a]
    /\ UNCHANGED <<delayed, sent, response, outcome>>

\* await asyncio.sleep(3.1)
Sleep(c) ==
    /\ pc[c] = "called"
    /\ pc' = [pc EXCEPT ![c] = "slept"]
    /\ delayed' = [delayed EXCEPT ![c] = TRUE]
    /\ UNCHANGED <<args, sent, response, outcome>>

\* client.get(url, ...) is issued
Get(c) ==
    /\ pc[c] = "slept"
    /\ pc' = [pc EXCEPT ![c] = "inflight"]
    /\ sent' = [sent EXCEPT ![c] = Append(@, RequestOf(args[c]))]
    /\ UNCHANGED <<args, delayed, response, outcome>>

\* Respond retrying once after a status other than 200.
Respond_retry(c, r) ==
    /\ pc[c] = "inflight"
    /\ IF r.status # HTTP_OK /\ Len(sent[c]) < 2
       THEN /\ pc' = [pc EXCEPT ![c] = "inflight"]
            /\ sent' = [sent EXCEPT ![c] = Append(@, RequestOf(args[c]))]
            /\ UNCHANGED <<response, outcome>>
       ELSE /\ pc' = [pc EXCEPT ![c] = "done"]
            /\ response' = [response EXCEPT ![c] = <<r>>]
            /\ outcome' = [outcome EXCEPT ![c] = ResultOf(args[c], r)]
            /\ UNCHANGED sent
    /\ UNCHANGED <<args, delayed>>

\* The response arrives and the rest of the tool runs to its return.
Respond(c, r) ==
    /\ pc[c] = "inflight"
    /\ pc' = [pc EXCEPT ![c] = "done"]
    /\ response' = [response EXCEPT ![c] = <<r>>]
    /\ outcome' = [outcome EXCEPT ![c] = ResultOf(args[c], r)]
    /\ UNCHANGED <<args, delayed, sent>>

\* client.get raises (30 s timeout, connection failure); nothing catches it.
Fail(c, err) ==
    /\ pc[c] = "inflight"
    /\ pc' = [pc EXCEPT ![c] = "done"]
    /\ outcome' = [outcome EXCEPT ![c] = Raise(err)]
    /\ UNCHANGED <<args, delayed, sent, response>>

\* The host takes the outcome; nothing of the call survives it.
Collect(c) ==
    /\ pc[c] = "done"
    /\ pc' = [pc EXCEPT ![c] = "idle"]
    /\ args' = [args EXCEPT ![c] = NoArgs]
    /\ delayed' = [delayed EXCEPT ![c] = FALSE]
    /\ sent' = [sent EXCEPT ![c] = <<>>]
    /\ response' = [response EXCEPT ![c] = <<>>]
    /\ outcome' = [outcome EXCEPT ![c] = NoOutcome]

\* A host that calls one tool at a time, against everything upstream may serve.
InvokeAlone(c) ==
    /\ \A d \in Calls : pc[d] = "idle"
    /\ \E a \in Invocations : Invoke(c, a)

Next ==
    \E c \in Calls :
        \/ InvokeAlone(c)
        \/ Sleep(c)
        \/ Get(c)
        \/ \E err \in TransportErrors : Fail(c, err)
        \/ \E r \in Responses : Respond(c, r)
        \/ Collect(c)

Spec == Init /\ [][Next]_vars

\* A host that has several calls under way at once, against a small upstream.
ConcInvocations ==
    {[NoArgs EXCEPT !.tool = "search_papers", !.query = <<"x">>,
                    !.max_results = DefaultMaxResults,
                    !.sort_by = "relevance", !.sort_order = "ascending"],
     [NoArgs EXCEPT !.tool = "find_papers_by_author", !.author_name = <<"x">>,
                    !.max_results = DefaultMaxResults],
     [NoArgs EXCEPT !.tool = "get_latest_from_category", !.category = <<"x">>,
                    !.max_results = 1],
     [NoArgs EXCEPT !.tool = "get_paper_by_id", !.arxiv_id = "2307.09288"],
     [NoArgs EXCEPT !.tool = "get_papers_by_ids", !.arxiv_ids = <<"2307.09288", "hep-ex/0307015">>]}

ConcResponses ==
    [status : {HTTP_OK, 503}, entries : {<<>>, <<NoTermEntry>>, <<ErrorEntry>>}]

ConcNext ==
    \E c \in Calls :
        \/ \E a \in ConcInvocations : Invoke(c, a)
        \/ Sleep(c)
        \/ Get(c)
        \/ \E r \in ConcResponses : Respond(c, r)
        \/ \E err \in TransportErrors : Fail(c, err)
        \/ Collect(c)

ConcSpec == Init /\ [][ConcNext]_vars

\* ------------------------------------------------- reading rendered text
Contains(t, sub) == \E i \in 1..(Len(t) - Len(sub) + 1) : SubSeq(t, i, i + Len(sub) - 1) = sub

Count(t, atom) == Cardinality({i \in 1..Len(t) : t[i] = atom})

StartsWith(t, pre) == Len(t) >= Len(pre) /\ SubSeq(t, 1, Len(pre)) = pre

EndsWith(t, suf) == Len(t) >= Len(suf) /\ SubSeq(t, Len(t) - Len(suf) + 1, Len(t)) = suf

RECURSIVE SplitOn(_, _)
SplitOn(t, atom) ==
    LET k == Find(t, atom)
    IN  IF k = 0 THEN <<t>>
        ELSE <<SubSeq(t, 1, k - 1)>> \o SplitOn(SubSeq(t, k + 1, Len(t)), atom)

HeaderLabels == <<"Title: ", "Authors: ", "arXiv ID: ", "Published Date: ",
                  "Primary Category: ", "Abstract Link: ", "PDF Link: ">>

LineEnds == {"\n", "\nAbstract:", "\nAbstract: "}

\* The rest of the line that starts with label, in one record.
LineOf(t, label) ==
    LET k == Find(t, label)
        stops == {j \in (k + 1)..Len(t) : t[j] \in LineEnds}
        stop == IF stops = {} THEN Len(t) + 1 ELSE CHOOSE j \in stops : \A m \in stops : j <= m
    IN  SubSeq(t, k + 1, stop - 1)

NoRecordContent(t) ==
    /\ \A i \in 1..Len(HeaderLabels) : Count(t, HeaderLabels[i]) = 0
    /\ \A i \in 1..Len(t) : t[i] \notin {"\nAbstract:", "\nAbstract: ", SEP[1], "Found "}

SearchTools == {"search_papers", "find_papers_by_author", "get_latest_from_category"}
IdTools == {"get_paper_by_id", "get_papers_by_ids"}

Got(c) == response[c] # <<>>
Status(c) == response[c][1].status
Feed(c) == response[c][1].entries

\* An entry whose authors all carry a name and whose links all carry rel, type
\* and href, as the arXiv feed's entries do.
WellFormed(e) ==
    /\ Has(e, "authors") => \A i \in 1..Len(e.authors) : e.authors[i].has_name
    /\ Has(e, "links") => \A i \in 1..Len(e.links) : e.links[i].has = {"rel", "type", "href"}

\* A 200 response with N >= 1 well-formed entries that is not a lone "Error" entry.
GotPapers(c) ==
    /\ Got(c)
    /\ Status(c) = HTTP_OK
    /\ Len(Feed(c)) >= 1
    /\ ~(Len(Feed(c)) = 1 /\ Has(Feed(c)[1], "title") /\ Feed(c)[1].title = <<"E", "r", "r", "o", "r">>)
    /\ \A i \in 1..Len(Feed(c)) : WellFormed(Feed(c)[i])

\* ------------------------------------------------------------------ claims

\* C1: every tool call ends by returning a string, whatever the input and
\* whatever the upstream call does (any status, a timeout or transport
\* failure, any parsed feed); no call ends by raising.
C1_NoFault == \A c \in Calls : outcome[c].kind # "raise"

\* C2: for any non-200 status, in every tool, the returned text is the status
\* error string: it contains the status code and no record content, whatever
\* entries the body carries.
C2_StatusError ==
    \A c \in Calls :
        (Got(c) /\ Status(c) # HTTP_OK) =>
            /\ Returned(outcome[c])
            /\ outcome[c].text[1] = "Error: Academic paper API returned status "
            /\ Tail(outcome[c].text) = Digits(Status(c))
            /\ NoRecordContent(outcome[c].text)

C2_Witness ==
    \E c \in Calls :
        /\ Got(c) /\ Status(c) = 503 /\ Feed(c) = <<FullEntry, OldStyleEntry>>
        /\ args[c].tool = "find_papers_by_author"
        /\ Returned(outcome[c])

\* What the abstract of entry e reads, line breaks replaced as everywhere.
Abstract(e) == IF Has(e, "summary") THEN ReplaceNewline(e.summary) ELSE NA

\* C3: for N >= 1 valid entries in a 200 response, the search output begins
\* with "Found N papers" and holds exactly N records joined by the separator,
\* numbered 1..N in feed order, each ending with the entry's summary cut to
\* at most 250 characters and followed by "...".
C3_SearchList ==
    \A c \in Calls :
        (GotPapers(c) /\ args[c].tool \in SearchTools) =>
            LET N == Len(Feed(c))
                head == <<"Found ">> \o Digits(N) \o <<" papers:\n">>
                text == outcome[c].text
                parts == SplitOn(SubSeq(text, Len(head) + 1, Len(text)), SEP[1])
            IN  /\ Returned(outcome[c])
                /\ StartsWith(text, head)
                /\ Len(parts) = N
                /\ Count(text, "Title: ") = N
                /\ \A i \in 1..N :
                      /\ StartsWith(parts[i], Digits(i) \o <<". ", "Title: ">> \o title(Feed(c)[i]))
                      /\ Count(parts[i], "\nAbstract: ") = 1
                      /\ Len(LineOf(parts[i], "\nAbstract: ")) <= TruncLen + 1
                      /\ EndsWith(parts[i], <<"\nAbstract: ">>
                                            \o Take(Abstract(Feed(c)[i]), TruncLen) \o <<"...">>)

C3_Witness ==
    \E c \in Calls :
        /\ GotPapers(c) /\ args[c].tool = "search_papers"
        /\ Feed(c) = <<OldStyleEntry, FullEntry>>
        /\ Len(FullEntry.summary) > TruncLen
        /\ Returned(outcome[c])

\* C4: for ID-based lookup, a 200 response with N >= 1 entries yields exactly
\* N full records in feed order, joined by the separator, abstracts
\* untruncated, with no numbering prefix and no count header.
C4_FullRecords ==
    \A c \in Calls :
        (GotPapers(c) /\ args[c].tool \in IdTools) =>
            LET N == Len(Feed(c))
                text == outcome[c].text
                parts == SplitOn(text, SEP[1])
            IN  /\ Returned(outcome[c])
                /\ Len(parts) = N
                /\ Count(text, "Title: ") = N
                /\ Count(text, "Found ") = 0
                /\ Count(text, "...") = 0
                /\ \A i \in 1..N :
                      /\ StartsWith(parts[i], <<"Title: ">> \o title(Feed(c)[i]))
                      /\ EndsWith(parts[i], <<"\nAbstract:", "\n">> \o Abstract(Feed(c)[i]))

C4_Witness ==
    \E c \in Calls :
        /\ GotPapers(c) /\ args[c].tool = "get_papers_by_ids"
        /\ Feed(c) = <<FullEntry, OldStyleEntry>>
        /\ Len(FullEntry.summary) > TruncLen
        /\ Returned(outcome[c])

\* C5: a 200 response whose feed is a single "Error"-titled entry yields that
\* entry's summary (or "Unknown error" when it has none) and no paper
\* record, in search and in ID lookup alike; an "Error" entry in a feed of
\* two or more entries is rendered as a paper.
C5_ErrorEntry ==
    \A c \in Calls :
        (Got(c) /\ Status(c) = HTTP_OK /\ Len(Feed(c)) >= 1
           /\ Has(Feed(c)[1], "title") /\ Feed(c)[1].title = <<"E", "r", "r", "o", "r">>) =>
            IF Len(Feed(c)) = 1
            THEN /\ Returned(outcome[c])
                 /\ outcome[c].text[1] = "Academic paper API Error: "
                 /\ Tail(outcome[c].text) =
                        (IF Has(Feed(c)[1], "summary") THEN ReplaceNewline(Feed(c)[1].summary)
                         ELSE <<"Unknown error">>)
                 /\ NoRecordContent(outcome[c].text)
            ELSE Returned(outcome[c]) =>
                    /\ Count(outcome[c].text, "Academic paper API Error: ") = 0
                    /\ Count(outcome[c].text, "Title: ") = Len(Feed(c))

C5_Witness ==
    \E c \in Calls :
        /\ Got(c) /\ Status(c) = HTTP_OK /\ Feed(c) = <<ErrorEntry>>
        /\ args[c].tool = "get_papers_by_ids"
        /\ Returned(outcome[c])

\* The records of a returned paper listing, one per separator-joined part.
Records(c) ==
    IF args[c].tool \in SearchTools
    THEN SplitOn(SubSeq(outcome[c].text, Find(outcome[c].text, " papers:\n") + 1,
                        Len(outcome[c].text)), SEP[1])
    ELSE SplitOn(outcome[c].text, SEP[1])

InOrder(t, labels) ==
    \A i \in 1..Len(labels) :
        /\ Count(t, labels[i]) = 1
        /\ i > 1 => Find(t, labels[i - 1]) < Find(t, labels[i])

\* C7: whichever fields an entry lacks, it is still rendered as one record
\* with all seven header lines and the abstract, each absent field reading
\* "N/A"; the output holds as many records as the feed has entries.
C7_Placeholders ==
    \A c \in Calls :
        GotPapers(c) =>
            /\ Returned(outcome[c])
            /\ Len(Records(c)) = Len(Feed(c))
            /\ \A i \in 1..Len(Feed(c)) :
                  LET e == Feed(c)[i]
                      r == Records(c)[i]
                      mark == IF args[c].tool \in SearchTools THEN "\nAbstract: " ELSE "\nAbstract:"
                  IN  /\ InOrder(r, HeaderLabels \o <<mark>>)
                      /\ ~Has(e, "title") => LineOf(r, "Title: ") = NA
                      /\ ~Has(e, "authors") => LineOf(r, "Authors: ") = NA
                      /\ ~Has(e, "id") => LineOf(r, "arXiv ID: ") = NA
                      /\ ~Has(e, "id") => LineOf(r, "Abstract Link: ") = NA
                      /\ (~Has(e, "published_parsed") /\ ~Has(e, "updated_parsed"))
                            => LineOf(r, "Published Date: ") = NA
                      /\ ~Has(e, "arxiv_primary_category") => LineOf(r, "Primary Category: ") = NA
                      /\ ~Has(e, "links") => LineOf(r, "PDF Link: ") = NA
                      /\ ~Has(e, "summary") =>
                            IF args[c].tool \in SearchTools
                            THEN EndsWith(r, <<mark>> \o NA \o <<"...">>)
                            ELSE EndsWith(r, <<mark, "\n">> \o NA)

C7_Witness ==
    \E c \in Calls :
        /\ GotPapers(c)
        /\ Len(Feed(c)) = 1
        /\ Feed(c)[1].has \cap {"authors", "links", "arxiv_primary_category"} = {}
        /\ Has(Feed(c)[1], "title")
        /\ Returned(outcome[c])
        /\ Len(Records(c)) = 1

\* C9: the wrapper tools are pure delegations: each issues the one request
\* the delegate would issue for the constructed query (au:"name" or cat:c,
\* sorted by submittedDate descending; the one-element id list) and hands
\* back exactly what the delegate makes of the response.
C9_Delegation ==
    \A c \in Calls :
        /\ (args[c].tool = "find_papers_by_author" /\ sent[c] # <<>>) =>
              sent[c] = <<search_params(<<"au:\"">> \o args[c].author_name \o <<"\"">>,
                                        args[c].max_results, "submittedDate", "descending")>>
        /\ (args[c].tool = "get_latest_from_category" /\ sent[c] # <<>>) =>
              sent[c] = <<search_params(<<"cat:">> \o args[c].category,
                                        args[c].max_results, "submittedDate", "descending")>>
        /\ (args[c].tool = "get_paper_by_id" /\ sent[c] # <<>>) =>
              sent[c] = <<ids_params(<<args[c].arxiv_id>>)>>
        /\ (args[c].tool \in {"find_papers_by_author", "get_latest_from_category"} /\ Got(c)) =>
              outcome[c] = search_papers(response[c][1])
        /\ (args[c].tool = "get_paper_by_id" /\ Got(c)) =>
              outcome[c] = get_papers_by_ids(response[c][1])

C9_Witness ==
    \E c \in Calls :
        /\ args[c].tool = "get_latest_from_category"
        /\ args[c].max_results = 1
        /\ Len(sent[c]) = 1
        /\ GotPapers(c) /\ Len(Feed(c)) = 2
        /\ Returned(outcome[c])

\* The pieces of an identifier URL after its "abs" piece, joined by "/".
AfterAbs(id) ==
    LET k == Find(id, "abs")
    IN  Join([i \in 1..(Len(id) - k) |-> <<id[k + i]>>], <<"/">>)

\* C10: the rendered arXiv ID is everything after "/abs/" in the entry's
\* identifier URL (hep-ex/0307015 for http://arxiv.org/abs/hep-ex/0307015),
\* and "N/A" when the entry has no id.
C10_ArxivId ==
    \A c \in Calls :
        GotPapers(c) =>
            \A i \in 1..Len(Feed(c)) :
                LineOf(Records(c)[i], "arXiv ID: ") =
                    (IF Has(Feed(c)[i], "id") THEN AfterAbs(Feed(c)[i].id) ELSE NA)

EmptyOk(c) == Got(c) /\ Status(c) = HTTP_OK /\ Feed(c) = <<>>

\* C6 as stated: for zero entries in a 200 response every operation returns
\* the same fixed "no results" message.
C6_SameMessage ==
    \A c, d \in Calls :
        (EmptyOk(c) /\ EmptyOk(d)) =>
            /\ Returned(outcome[c])
            /\ outcome[c].text = outcome[d].text

\* C6 as amended: for zero entries in a 200 response each operation returns
\* a fixed message with no count header and no record: search, author search
\* and category search return "No papers found for your query.", get-by-id
\* and get-by-ids return "Could not find any papers with the provided IDs.".
C6_FixedMessages ==
    \A c \in Calls :
        EmptyOk(c) =>
            /\ Returned(outcome[c])
            /\ NoRecordContent(outcome[c].text)
            /\ args[c].tool \in SearchTools =>
                  outcome[c].text = <<"No papers found for your query.">>
            /\ args[c].tool \in IdTools =>
                  outcome[c].text = <<"Could not find any papers with the provided IDs.">>

C6_Witness ==
    \E c, d \in Calls :
        /\ EmptyOk(c) /\ args[c].tool = "get_latest_from_category"
        /\ EmptyOk(d) /\ args[d].tool = "get_paper_by_id"
        /\ Returned(outcome[c]) /\ Returned(outcome[d])

C8_Inv ==
    \A c \in Calls :
        /\ Len(sent[c]) <= 1
        /\ (Len(sent[c]) = 1) <=> (pc[c] \in {"inflight", "done"})
        /\ sent[c] # <<>> => (delayed[c] /\ sent[c] = <<RequestOf(args[c])>>)
        /\ (pc[c] = "done") <=> (outcome[c] # NoOutcome)
        /\ Got(c) => (pc[c] = "done" /\ outcome[c] = ResultOf(args[c], response[c][1]))

C8_Step ==
    \A c \in Calls :
        /\ (pc'[c] = pc[c]) =>
              /\ args'[c] = args[c] /\ delayed'[c] = delayed[c] /\ sent'[c] = sent[c]
              /\ response'[c] = response[c] /\ outcome'[c] = outcome[c]
        /\ (pc[c] = "done") => pc'[c] \in {"done", "idle"}
        /\ (pc[c] = "inflight" /\ pc'[c] # pc[c]) => pc'[c] = "done"

\* C8: each tool call issues exactly one GET, only after the rate-limit delay,
\* and then ends: no second request follows a non-200 status, an error
\* entry or an empty feed; a call's state is touched by its own steps only,
\* and its outcome is a function of its own arguments and its own response.
C8_OneRequest == []C8_Inv /\ [][C8_Step]_vars

C8_Witness ==
    \E c, d \in Calls :
        /\ c # d
        /\ pc[c] = "done" /\ Got(c) /\ Status(c) = 503 /\ Len(sent[c]) = 1
        /\ pc[d] = "done" /\ Got(d) /\ Status(d) = HTTP_OK /\ Feed(d) = <<ErrorEntry>>
        /\ Len(sent[d]) = 1

====
